---- MODULE Spec2Model ----
(***************************************************************************)
(* Model of analyzer/vid2score.py: the command-line entry point and the    *)
(* frame loop of main().                                                   *)
(*                                                                         *)
(* Numbers.  The program computes with floats; the model computes with     *)
(* exact rationals held as scaled integers, rounded the way round() does   *)
(* (half to even):                                                         *)
(*   t                 in frame periods (1/fps s); row.t in 1/1000 s       *)
(*   centers           in half pixels  (cx2 = x1 + x2 = 2*cx)              *)
(*   az, el            in 1/100 degree                                     *)
(*   dist, spd, conf, glitch, sat, val, edge, shape   in 1/1000            *)
(*   hue               in 1/10 degree                                      *)
(* Box coordinates and frame rates are integers.  The boxes of the input   *)
(* set move along one axis only, so the squared displacement is a perfect  *)
(* square and the square root is exact.                                    *)
(*                                                                         *)
(* Images.  cv2 is an external library.  A decoded image is represented    *)
(* by the statistics cv2 would measure on any non-empty crop of it (a      *)
(* homogeneous texture); the guards, normalisations and clips around the   *)
(* cv2 calls are modelled from the source.                                 *)
(***************************************************************************)
EXTENDS Integers, Sequences, FiniteSets, TLC

VARIABLES
    pc,           \* position of the program
    args,         \* argparse.Namespace: [format]
    cap,          \* what cv2.VideoCapture reports: [opened, fps, W, H]
    fps, W, H,    \* locals of main()
    prev_center,  \* dict oid -> <<cx2, cy2>>
    t,            \* frame clock, in frame periods
    sink,         \* the file object `out`: "unopened" | "open" | "closed"
    file,         \* content of the file at args.out, a sequence of lines
    r,            \* the tracker result being processed
    bi,           \* index in r.boxes of the next detection (1-based)
    gval,         \* glitch value of the current frame
    diag,         \* diagnostic of an abort (<<>> if none)
    nres,         \* history: number of results the tracker has yielded
    ndets,        \* history: number of detections the tracker has supplied
    log           \* history: one entry per tracked detection processed

vars == <<pc, args, cap, fps, W, H, prev_center, t, sink, file, r, bi, gval,
          diag, nres, ndets, log>>

----------------------------------------------------------------------------
(* Bounds of the exploration *)

MaxFrames == 2
MaxDets == 2

----------------------------------------------------------------------------
(* Arithmetic helpers *)

Max(a, b) == IF a >= b THEN a ELSE b
Min(a, b) == IF a <= b THEN a ELSE b
Clip(x, lo, hi) == Max(lo, Min(hi, x))

\* round(num/den) for den > 0, ties to even, as Python's round()
Round(num, den) ==
    LET q == num \div den
        m == num % den
    IN  IF 2 * m < den THEN q
        ELSE IF 2 * m > den THEN q + 1
        ELSE IF q % 2 = 0 THEN q ELSE q + 1

RECURSIVE SqrtFrom(_, _)
SqrtFrom(n, g) == IF (g + 1) * (g + 1) > n THEN g ELSE SqrtFrom(n, g + 1)
\* math.sqrt on a perfect square (floor of the root otherwise)
Sqrt(n) == SqrtFrom(n, 0)

----------------------------------------------------------------------------
(* Inputs *)

Formats == {"csv", "jsonl", "xml"}

\* what the capture reports: an unopenable source reports zeros
Captures ==
    { [opened |-> TRUE, fps |-> f, W |-> 4, H |-> 2] : f \in {0, 16} }
    \cup { [opened |-> FALSE, fps |-> 0, W |-> 0, H |-> 0] }

\* images, by the statistics cv2 measures on a non-empty crop
Textured == [hue |-> 30, sat |-> 128, val |-> 204, sobel |-> 16, lapvar |-> 250,
             cnts |-> <<[area |-> 1, peri |-> 4], [area |-> 4, peri |-> 8]>>,
             huestd |-> 45]
Images == {Textured}

\* bounding boxes <<x1, y1, x2, y2>> for a 4x2 frame
BoxInside == <<1, 0, 3, 2>>
BoxFull == <<0, 0, 4, 2>>
BoxLeftOut == <<-3, 0, -1, 2>>
BoxRightOut == <<5, 0, 7, 2>>
Boxes == {BoxInside, BoxFull, BoxLeftOut, BoxRightOut}

TrackIds == {1, 2}

\* b.id is None  <=>  id = <<>>; otherwise id = <<oid>>
Detections ==
    { [id |-> <<i>>, cls |-> 0, conf |-> 875, xyxy |-> b] : i \in TrackIds, b \in Boxes }
    \cup { [id |-> <<>>, cls |-> 0, conf |-> 875, xyxy |-> BoxInside] }

BoxLists(n) == UNION { [1..k -> Detections] : k \in 0..n }

\* a tracker result: orig_img is <<>> (absent) or <<image>>;
\* boxes is <<>> (None) or <<list of detections>>
Results(n) ==
    { [orig_img |-> f, boxes |-> b] :
        f \in {<<>>} \cup { <<i>> : i \in Images },
        b \in {<<>>} \cup { <<l>> : l \in BoxLists(n) } }

NoResult == [orig_img |-> <<>>, boxes |-> <<>>]

----------------------------------------------------------------------------
(* Pure functions of vid2score.py *)

field_order == <<"t", "stream", "oid", "cls", "az", "el", "dist", "spd", "conf",
                 "glitch", "hue", "sat", "val", "edge", "shape">>

\* clip(mean(|sobelx|) / 64, 0, 1), in 1/1000
glitch_meter(img) == Clip(Round(1000 * img.sobel, 64), 0, 1000)

\* <<az, el, dist>> in 1/100 degree, 1/100 degree, 1/1000
to_polar(cx2, cy2, area, w, h) ==
    << Round(18000 * (cx2 - w), w),
       Round(3000 * (h - cy2), h),
       Max(50, Round(1000 * (w * h - area), w * h)) >>

\* length of the numpy slice a:b of an axis of length n
SliceLen(a, b, n) ==
    LET lo == IF a < 0 THEN Max(0, a + n) ELSE Min(a, n)
        hi == IF b < 0 THEN Max(0, b + n) ELSE Min(b, n)
    IN  Max(0, hi - lo)

\* frame[y1i:y2i, x1i:x2i] if frame is not None else np.array([])
Crop(frame, y1i, y2i, x1i, x2i, w, h) ==
    IF frame = <<>>
    THEN [size |-> 0, img |-> <<>>]
    ELSE [size |-> SliceLen(y1i, y2i, h) * SliceLen(x1i, x2i, w) * 3, img |-> frame]

\* hsv_stats without the test for an empty crop of a frame
hsv_stats_NoGuard(roi) ==
    IF roi.img = <<>>
    THEN <<0, 0, 0>>
    ELSE << 20 * roi.img[1].hue,
            Round(1000 * roi.img[1].sat, 255),
            Round(1000 * roi.img[1].val, 255) >>

\* <<hue, sat, val>> in 1/10 degree, 1/1000, 1/1000
hsv_stats(roi) ==
    IF roi.size = 0
    THEN <<0, 0, 0>>
    ELSE << 20 * roi.img[1].hue,
            Round(1000 * roi.img[1].sat, 255),
            Round(1000 * roi.img[1].val, 255) >>

\* cv2.cvtColor(roi, COLOR_BGR2GRAY) if roi.size else np.array([])
GrayRoi(roi) == IF roi.size # 0 THEN roi ELSE [size |-> 0, img |-> <<>>]

\* clip(var(Laplacian) / 1000, 0, 1), in 1/1000
edge_density(gray_roi) ==
    IF gray_roi.size = 0
    THEN 0
    ELSE Clip(Round(1000 * gray_roi.img[1].lapvar, 1000), 0, 1000)

\* max(cnts, key=cv2.contourArea)
MaxContour(cnts) ==
    cnts[CHOOSE i \in 1..Len(cnts) :
            /\ \A j \in 1..Len(cnts) : cnts[j].area <= cnts[i].area
            /\ \A j \in 1..(i - 1) : cnts[j].area < cnts[i].area]

\* compact * bright * (1 - hue_std), clipped, in 1/1000 (pi taken as 355/113)
shape_magic(roi) ==
    IF roi.size = 0 THEN 0
    ELSE LET img == roi.img[1] IN
         IF img.cnts = <<>> THEN 0
         ELSE LET cnt == MaxContour(img.cnts) IN
              IF cnt.peri = 0 THEN 0
              ELSE LET compact == Round(4 * 355 * cnt.area * 1000,
                                        113 * cnt.peri * cnt.peri)
                   IN  Clip(Round(compact * img.val * (180 - img.huestd), 255 * 180),
                            0, 1000)

\* the speed with an unknown track taken to come from the origin
Speed_FromOrigin(centers, oid, cx2, cy2, f, w, h) ==
    LET px2 == IF oid \in DOMAIN centers THEN centers[oid][1] ELSE 0
        py2 == IF oid \in DOMAIN centers THEN centers[oid][2] ELSE 0
        dx2 == cx2 - px2
        dy2 == cy2 - py2
    IN  Round(1000 * f * Sqrt(dx2 * dx2 * h * h + dy2 * dy2 * w * w), 2 * w * h)

\* lines 186-191: speed in normalised pixels per second, in 1/1000
Speed(centers, oid, cx2, cy2, f, w, h) ==
    IF oid \in DOMAIN centers
    THEN LET dx2 == cx2 - centers[oid][1]
             dy2 == cy2 - centers[oid][2]
         IN  Round(1000 * f * Sqrt(dx2 * dx2 * h * h + dy2 * dy2 * w * w), 2 * w * h)
    ELSE 0

\* the center stored on the first sighting only
Remember_FirstOnly(centers, oid, cx2, cy2) ==
    [o \in DOMAIN centers \cup {oid} |->
        IF o \in DOMAIN centers THEN centers[o] ELSE <<cx2, cy2>>]

\* line 192: prev_center[oid] = (cx, cy)
Remember(centers, oid, cx2, cy2) ==
    [o \in DOMAIN centers \cup {oid} |->
        IF o = oid THEN <<cx2, cy2>> ELSE centers[o]]

\* lines 195-196: the crop indices <<x1i, y1i, x2i, y2i>>
CropIndices(xyxy, w, h) ==
    << Max(0, xyxy[1]), Max(0, xyxy[2]), Min(w, xyxy[3]), Min(h, xyxy[4]) >>

\* line 182: the box center, in half pixels
Center2(xyxy) == <<xyxy[1] + xyxy[3], xyxy[2] + xyxy[4]>>

\* no test of the track id
Tracked_Always(b) == TRUE

\* line 175: the detection carries a track id
Tracked(b) == b.id # <<>>

\* lines 177-219: the row of a detection that carries a track id
Row(b, frame, g, centers, tt, f, w, h) ==
    LET oid == b.id[1]
        x1 == b.xyxy[1]
        y1 == b.xyxy[2]
        x2 == b.xyxy[3]
        y2 == b.xyxy[4]
        cx2 == Center2(b.xyxy)[1]
        cy2 == Center2(b.xyxy)[2]
        area == Max(1, (x2 - x1) * (y2 - y1))
        pol == to_polar(cx2, cy2, area, w, h)
        ix == CropIndices(b.xyxy, w, h)
        roi == Crop(frame, ix[2], ix[4], ix[1], ix[3], w, h)
        hsv == hsv_stats(roi)
    IN  [t |-> Round(1000 * tt, f), stream |-> "camA", oid |-> oid, cls |-> b.cls,
         az |-> pol[1], el |-> pol[2], dist |-> pol[3],
         spd |-> Speed(centers, oid, cx2, cy2, f, w, h),
         conf |-> b.conf, glitch |-> g,
         hue |-> hsv[1], sat |-> hsv[2], val |-> hsv[3],
         edge |-> edge_density(GrayRoi(roi)), shape |-> shape_magic(roi)]

\* lines 220-223: the line written for a row
Line(fmt, row) == [form |-> IF fmt = "csv" THEN "csv" ELSE "jsonl", row |-> row]

\* the line put in front of the file
Write_Front(lines, line) == <<line>> \o lines

\* out.write / writer.writerow: the line goes to the end of the file
Write(lines, line) == Append(lines, line)

\* the clock advanced only for a result that has boxes
Advance_IfBoxes(tt, res) == IF res.boxes = <<>> THEN tt ELSE tt + 1

\* line 164: the frame clock after tracker result res
Advance(tt, res) == tt + 1

\* a parser without choices
FormatAccepted_Any(fmt) == TRUE

\* line 235: choices=("csv", "jsonl")
FormatAccepted(fmt) == fmt \in {"csv", "jsonl"}

\* the capture not tested
IsOpened_Unchecked(c) == TRUE

\* line 141: cap.isOpened()
IsOpened(c) == c.opened

\* what a previous run left at args.out
OldFile == <<[form |-> "old"]>>

----------------------------------------------------------------------------
(* The program *)

Init ==
    /\ pc = "args"
    /\ args \in [format : Formats]
    /\ cap \in Captures
    /\ fps = 0 /\ W = 0 /\ H = 0
    /\ prev_center = <<>>
    /\ t = 0
    /\ sink = "unopened"
    /\ file = OldFile
    /\ r = NoResult
    /\ bi = 0
    /\ gval = 0
    /\ diag = <<>>
    /\ nres = 0
    /\ ndets = 0
    /\ log = <<>>

\* lines 227-237: argparse rejects a format outside its choices (exit status 2)
ParseArgs ==
    /\ pc = "args"
    /\ pc' = IF FormatAccepted(args.format) THEN "main" ELSE "rejected"
    /\ UNCHANGED <<args, cap, fps, W, H, prev_center, t, sink, file, r, bi, gval,
                   diag, nres, ndets, log>>

\* lines 140-148
OpenCapture ==
    /\ pc = "main"
    /\ IF IsOpened(cap)
       THEN /\ fps' = (IF cap.fps # 0 THEN cap.fps ELSE 30)
            /\ W' = cap.W
            /\ H' = cap.H
            /\ prev_center' = <<>>
            /\ t' = 0
            /\ pc' = "open_out"
            /\ diag' = diag
       ELSE /\ diag' = <<"Cannot open", "video">>
            /\ pc' = "aborted"
            /\ UNCHANGED <<fps, W, H, prev_center, t>>
    /\ UNCHANGED <<args, cap, sink, file, r, bi, gval, nres, ndets, log>>

\* lines 149-154: open(args.out, "w") truncates; the csv form starts with a header
OpenOutput ==
    /\ pc = "open_out"
    /\ sink' = "open"
    /\ file' = IF args.format = "csv"
               THEN Write(<<>>, [form |-> "header", cols |-> field_order])
               ELSE <<>>
    /\ pc' = "track"
    /\ UNCHANGED <<args, cap, fps, W, H, prev_center, t, r, bi, gval, diag, nres,
                   ndets, log>>

\* lines 157-172: the tracker yields its next result
NextResult ==
    /\ pc = "track"
    /\ cap.opened   \* the tracker reads the same source
    /\ nres < MaxFrames
    /\ \E res \in Results(MaxDets - ndets) :
        /\ r' = res
        /\ nres' = nres + 1
        /\ t' = Advance(t, res)
        /\ gval' = IF res.orig_img # <<>> THEN glitch_meter(res.orig_img[1]) ELSE 0
        /\ IF res.boxes = <<>>
           THEN /\ pc' = "track"
                /\ UNCHANGED <<bi, ndets>>
           ELSE /\ ndets' = ndets + Len(res.boxes[1])
                /\ bi' = 1
                /\ pc' = IF Len(res.boxes[1]) = 0 THEN "track" ELSE "boxes"
    /\ UNCHANGED <<args, cap, fps, W, H, prev_center, sink, file, diag, log>>

\* lines 174-223: one pass of the loop over the boxes
ProcessDetection ==
    /\ pc = "boxes"
    /\ LET b == r.boxes[1][bi]
           more == IF bi < Len(r.boxes[1]) THEN "boxes" ELSE "track"
       IN  IF ~Tracked(b)
           THEN /\ pc' = more
                /\ bi' = bi + 1
                /\ UNCHANGED <<prev_center, file, log>>
           ELSE IF b.id = <<>>
           THEN \* line 177: None has no attribute item
                /\ pc' = "crashed"
                /\ UNCHANGED <<bi, prev_center, file, log>>
           ELSE LET row == Row(b, r.orig_img, gval, prev_center, t, fps, W, H)
                    oid == b.id[1]
                    ix == CropIndices(b.xyxy, W, H)
                IN  /\ prev_center' = Remember(prev_center, oid,
                                               Center2(b.xyxy)[1], Center2(b.xyxy)[2])
                    /\ file' = Write(file, Line(args.format, row))
                    /\ log' = Append(log,
                          [k |-> nres, j |-> bi, b |-> b, row |-> row,
                           frame |-> r.orig_img # <<>>,
                           ix |-> ix,
                           roisize |-> Crop(r.orig_img, ix[2], ix[4], ix[1], ix[3],
                                            W, H).size])
                    /\ pc' = more
                    /\ bi' = bi + 1
    /\ UNCHANGED <<args, cap, fps, W, H, t, sink, r, gval, diag, nres, ndets>>

\* lines 157, 224: the tracker is exhausted; out.close()
EndOfStream ==
    /\ pc = "track"
    /\ sink' = "closed"
    /\ pc' = "done"
    /\ UNCHANGED <<args, cap, fps, W, H, prev_center, t, file, r, bi, gval, diag,
                   nres, ndets, log>>

\* an external interrupt, or an exception of the tracker, inside the loop:
\* nothing in main() catches it and line 224 is not reached
Interrupt ==
    /\ pc \in {"track", "boxes"}
    /\ pc' = "interrupted"
    /\ UNCHANGED <<args, cap, fps, W, H, prev_center, t, sink, file, r, bi, gval,
                   diag, nres, ndets, log>>

Next ==
    \/ ParseArgs
    \/ OpenCapture
    \/ OpenOutput
    \/ NextResult
    \/ ProcessDetection
    \/ EndOfStream
    \/ Interrupt

Spec == Init /\ [][Next]_vars

Terminal == {"rejected", "aborted", "done", "interrupted", "crashed"}

----------------------------------------------------------------------------
(* Vocabulary of the properties *)

IsData(l) == l.form \in {"csv", "jsonl"}

\* the records of the output file, in file order
Records == SelectSeq(file, IsData)

\* the earlier tracked detections of the same track id as the i-th
Earlier(i) == { j \in 1..(i - 1) : log[j].b.id = log[i].b.id }

\* the previous sighting of the track of the i-th tracked detection
Previous(i) == CHOOSE j \in Earlier(i) : \A m \in Earlier(i) : m <= j

\* the frame rate main() works with
Rate == IF cap.fps # 0 THEN cap.fps ELSE 30

Running == {"boxes", "track"}

\* the detection the next pass of the box loop looks at
Current == r.boxes[1][bi]

----------------------------------------------------------------------------
(* C1: the record of the first-ever detection of a track id has spd = 0,   *)
(* and so has the record of a detection whose box center equals the center *)
(* of the previous sighting of its track.                                  *)
C1_SpeedZero ==
    /\ Len(Records) = Len(log)
    /\ \A i \in 1..Len(log) :
        /\ Earlier(i) = {} => Records[i].row.spd = 0
        /\ (Earlier(i) # {} /\ Center2(log[Previous(i)].b.xyxy) = Center2(log[i].b.xyxy))
              => Records[i].row.spd = 0

\* a track seen first in one box and then, with the same center, in another
C1_Witness ==
    /\ Len(log) = 2
    /\ Len(Records) = 2
    /\ log[1].b.id = log[2].b.id
    /\ log[1].b.xyxy = BoxInside
    /\ log[2].b.xyxy = BoxFull
    /\ log[1].k < log[2].k

(* C2: a detection without a track id is skipped: the pass over it writes  *)
(* nothing, leaves prev_center alone and goes on to the next detection.    *)
C2_UntrackedSkipped ==
    [][ (pc = "boxes" /\ Current.id = <<>>)
          => /\ file' = file
             /\ prev_center' = prev_center
             /\ pc' \in Running \cup {"interrupted"}
             /\ pc' \in Running => bi' = bi + 1 ]_vars

\* an untracked detection in second position, after a tracked one, was passed
C2_Witness ==
    /\ pc \in Running
    /\ r.boxes # <<>>
    /\ bi = 3
    /\ r.boxes[1][1].id # <<>>
    /\ r.boxes[1][2].id = <<>>
    /\ Len(Records) = 1

(* C3: the records are in the file in the order in which their detections  *)
(* were processed (frame by frame, and within a frame in tracker order),   *)
(* and their t values never decrease.                                      *)
C3_Ordered ==
    /\ Len(Records) = Len(log)
    /\ \A i \in 1..Len(log) : Records[i].row = log[i].row
    /\ \A i, j \in 1..Len(log) :
          i < j => /\ Records[i].row.t <= Records[j].row.t
                   /\ \/ log[i].k < log[j].k
                      \/ log[i].k = log[j].k /\ log[i].j < log[j].j

\* two different records of one frame
C3_Witness ==
    /\ Len(Records) = 2
    /\ Len(log) = 2
    /\ log[1].k = log[2].k
    /\ log[1].row # log[2].row

(* C4: once opened, the sink is closed in every terminal state.            *)
C4_SinkClosedOnExit ==
    (pc \in Terminal /\ sink # "unopened") => sink = "closed"

(* C5: if the frame source cannot be opened the run aborts with the        *)
(* diagnostic, the output file is untouched and the tracker never runs.    *)
C5_AbortBeforeOutput ==
    ~cap.opened =>
        /\ pc \in {"args", "rejected", "main", "aborted"}
        /\ file = OldFile
        /\ sink = "unopened"
        /\ nres = 0
        /\ pc = "aborted" => diag = <<"Cannot open", "video">>

C5_Witness == pc = "aborted" /\ ~cap.opened /\ file = OldFile

(* C6: a format selector other than csv and jsonl is rejected before the   *)
(* output file is opened and before any frame is read.                     *)
C6_BadFormatRejected ==
    args.format \notin {"csv", "jsonl"} =>
        /\ pc \in {"args", "rejected"}
        /\ file = OldFile
        /\ sink = "unopened"
        /\ nres = 0

C6_Witness == pc = "rejected" /\ args.format = "xml"

(* C7: a tracked detection whose frame is absent or whose crop is empty    *)
(* still gets its record, with hue = sat = val = edge = shape = 0 (and     *)
(* glitch = 0 when the frame is absent), and the loop goes on.             *)
C7_EmptyInputNeutral ==
    [][ ( /\ pc = "boxes"
          /\ Current.id # <<>>
          /\ pc' # "interrupted"
          /\ LET ix == CropIndices(Current.xyxy, W, H)
             IN  \/ r.orig_img = <<>>
                 \/ SliceLen(ix[2], ix[4], H) * SliceLen(ix[1], ix[3], W) = 0 )
          => /\ pc' \in Running
             /\ Len(file') = Len(file) + 1
             /\ LET row == file'[Len(file')].row
                IN  /\ row.oid = Current.id[1]
                    /\ row.hue = 0 /\ row.sat = 0 /\ row.val = 0
                    /\ row.edge = 0 /\ row.shape = 0
                    /\ r.orig_img = <<>> => row.glitch = 0 ]_vars

\* one record made without a frame, one made from an empty crop of a frame
C7_Witness ==
    /\ Len(log) = 2
    /\ Len(Records) = 2
    /\ ~log[1].frame
    /\ log[2].frame /\ log[2].roisize = 0
    /\ Records[2].row.hue = 0 /\ Records[2].row.glitch # 0

(* C8: prev_center has an entry exactly for the track ids of the tracked   *)
(* detections processed so far, each holding the center of the latest      *)
(* detection of that id; no entry is ever removed; and each later sighting *)
(* has its speed measured against the center of the sighting before it.    *)
C8_TrackState ==
    /\ [] /\ DOMAIN prev_center = { log[i].b.id[1] : i \in 1..Len(log) }
          /\ \A i \in 1..Len(log) :
                /\ (\A j \in (i + 1)..Len(log) : log[j].b.id # log[i].b.id)
                      => prev_center[log[i].b.id[1]] = Center2(log[i].b.xyxy)
                /\ Earlier(i) # {}
                      => LET p == Center2(log[Previous(i)].b.xyxy)
                             c == Center2(log[i].b.xyxy)
                         IN  log[i].row.spd =
                                Round(1000 * Rate * Sqrt((c[1] - p[1]) * (c[1] - p[1]) * H * H
                                                         + (c[2] - p[2]) * (c[2] - p[2]) * W * W),
                                      2 * W * H)
    /\ [][DOMAIN prev_center \subseteq DOMAIN prev_center']_vars

\* a track seen at one center and again at another, which the entry now holds
C8_Witness ==
    /\ Len(log) = 2
    /\ log[1].b.id = log[2].b.id
    /\ Center2(log[1].b.xyxy) # Center2(log[2].b.xyxy)
    /\ prev_center[log[2].b.id[1]] = Center2(log[2].b.xyxy)
    /\ log[2].row.spd > 0

(* C9: the crop indices lie inside the frame, and a box wholly outside the *)
(* frame yields an empty crop.                                             *)
C9_CropClamped ==
    \A i \in 1..Len(log) :
        LET ix == log[i].ix
            bx == log[i].b.xyxy
        IN  /\ 0 <= ix[1] /\ ix[1] <= W
            /\ 0 <= ix[3] /\ ix[3] <= W
            /\ 0 <= ix[2] /\ ix[2] <= H
            /\ 0 <= ix[4] /\ ix[4] <= H
            /\ (bx[3] < 0 \/ bx[1] > W \/ bx[4] < 0 \/ bx[2] > H) => log[i].roisize = 0

(* C10: every record of the k-th tracker result carries t = k/fps rounded  *)
(* to 3 decimals, with fps = 30 when the source reports no rate, whatever  *)
(* the earlier results held.                                               *)
C10_FrameClock ==
    /\ Len(Records) = Len(log)
    /\ \A i \in 1..Len(log) : Records[i].row.t = Round(1000 * log[i].k, Rate)

\* the only record comes from the second result, at the default rate
C10_Witness ==
    /\ Len(log) = 1
    /\ Len(Records) = 1
    /\ log[1].k = 2
    /\ cap.fps = 0
    /\ Records[1].row.t = 67

====
